---- MODULE Spec2Model ----
(***************************************************************************)
(* Model of analyze_glia.py (Microglia Quantification v9.2): the batch     *)
(* loop of main() over the files of a folder, the nucleus filter, the      *)
(* interactive checkpoint, the measurement loop (RI and cable length), the *)
(* per-image outputs and the folder summary, plus get_cable_length() as a  *)
(* pure function.                                                          *)
(*                                                                         *)
(* Numbers.  Areas, perimeters and lengths are integers (calibrated        *)
(* units).  RI is kept in tenths, rounded down (RI_ONE is RI = 1.0); PI is *)
(* the rational PI_NUM / PI_DEN.  The comparison RI >= 1 is exact for that *)
(* rational.                                                               *)
(*                                                                         *)
(* ImageJ calls are modelled by their documented behaviour:                *)
(*   - RoiManager "Delete" deletes the selected items and deletes ALL      *)
(*     items when none is selected;                                        *)
(*   - RoiManager "Measure" measures the selected items, or all items      *)
(*     when none is selected, one Results row per measured item;           *)
(*   - with the "display" measurement option the row label is the image    *)
(*     title followed by the ROI name;                                     *)
(*   - "Summarize" appends an aggregate block below the Results rows.      *)
(* DEBUG is False in the source; its branches are not modelled.            *)
(***************************************************************************)
EXTENDS Integers, Sequences, FiniteSets, TLC

VARIABLES
    file_list,      \* os.listdir(input_dir), a sequence of files
    modelExists,    \* os.path.exists(membrane_model_file)
    idx,            \* position of the first loop in file_list (1-based)
    pc,             \* position of main() inside the pipeline
    failure,        \* why the run stopped ("none" while it runs)
    message,        \* the last IJ.showMessage notice
    opened,         \* files the Bio-Formats importer opened in this run
    classified,     \* files the pixel classifier ran on in this run
    rois,           \* the ROI manager's list
    results,        \* the system Results table (rows)
    summaryRows,    \* aggregate blocks "Summarize" put below the Results rows
    csv,            \* analysis_v9/<name>.csv on disk: [isfile, rows]
    csvWritten,     \* files whose .csv this run wrote
    xlsx,           \* files whose .xlsx this run wrote
    tif,            \* files whose overview .tif this run wrote
    png,            \* files whose _masks.png this run wrote
    crop,           \* get_cable_length: the cropped image (argument)
    cable_length    \* get_cable_length: the returned value

vars == <<file_list, modelExists, idx, pc, failure, message, opened, classified,
          rois, results, summaryRows, csv, csvWritten, xlsx, tif, png,
          crop, cable_length>>

(***************************************************************************)
(* Bounds and program constants                                            *)
(***************************************************************************)
MaxFiles == 2
MaxRois == 2
MaxTrees == 3

NUCLEUS_INTERSECTION_WITH_CELL == 15
MICROGLIA_MIN_SIZE == 20
MICROGLIA_MAX_SIZE == 500
PI_NUM == 355
PI_DEN == 113
RI_ONE == 10

MASK_TITLE == "microglia_mask"

SeqsUpTo(S, n) == UNION {[1..k -> S] : k \in 0..n}

Range(s) == {s[i] : i \in 1..Len(s)}

(***************************************************************************)
(* Files                                                                   *)
(***************************************************************************)
FilePool ==
    { [name |-> "a.nd2", ext |-> ".nd2"],
      [name |-> "b.tif", ext |-> ".tif"],
      [name |-> "notes.txt", ext |-> ".txt"] }

\* file_name.endswith(".nd2") or file_name.endswith(".tif")
Qualifies(f) == f.ext = ".nd2" \/ f.ext = ".tif"

FileLists ==
    {s \in SeqsUpTo(FilePool, MaxFiles) :
        \A i, j \in 1..Len(s) : i # j => s[i] # s[j]}

(***************************************************************************)
(* Skeleton trees and get_cable_length                                     *)
(* A Tree is the list of its paths (Tree.list()); a path has a number of   *)
(* nodes and a length.                                                     *)
(***************************************************************************)
Path(n, l) == [nodes |-> n, length |-> l]

TreeLong == << Path(9, 8) >>
TreeFork == << Path(2, 1), Path(2, 1) >>
TreeBush == << Path(3, 2), Path(2, 3) >>
TreeDot == << Path(1, 0) >>

TreePool == {TreeLong, TreeFork, TreeBush, TreeDot}

RECURSIVE SumLengths(_)
SumLengths(tree) ==
    IF tree = << >> THEN 0
    ELSE tree[1].length + SumLengths(Tail(tree))

RECURSIVE SumNodes(_)
SumNodes(tree) ==
    IF tree = << >> THEN 0
    ELSE tree[1].nodes + SumNodes(Tail(tree))

\* TreeAnalyzer(tree).getMetric("Cable length")
CableLengthMetric(tree) == SumLengths(tree)

\* max(len(x.list()) for x in trees)
MaxTreeLen(trees) ==
    CHOOSE m \in {Len(trees[i]) : i \in 1..Len(trees)} :
        \A i \in 1..Len(trees) : Len(trees[i]) <= m

\* next(x for x in trees if max_tree_len == len(x.list()))
FirstWithLen(trees, m) ==
    trees[CHOOSE i \in 1..Len(trees) :
            /\ Len(trees[i]) = m
            /\ \A j \in 1..(i - 1) : Len(trees[j]) # m]

LastWithLen(trees, m) ==
    trees[CHOOSE i \in 1..Len(trees) :
            /\ Len(trees[i]) = m
            /\ \A j \in (i + 1)..Len(trees) : Len(trees[j]) # m]

get_cable_length_last_tie(c) ==
    IF c.max > 0
    THEN CableLengthMetric(IF Len(c.trees) > 1
                           THEN LastWithLen(c.trees, MaxTreeLen(c.trees))
                           ELSE c.trees[1])
    ELSE 0

get_cable_length(c) ==
    IF c.max > 0
    THEN CableLengthMetric(IF Len(c.trees) > 1
                           THEN FirstWithLen(c.trees, MaxTreeLen(c.trees))
                           ELSE c.trees[1])
    ELSE 0

\* A crop without foreground has no skeleton; one with foreground has trees.
EmptyCrop == [max |-> 0, trees |-> << >>]

Crops ==
    {EmptyCrop} \cup
    {[max |-> 255, trees |-> t] : t \in (SeqsUpTo(TreePool, MaxTrees) \ {<< >>})}

(***************************************************************************)
(* ROIs                                                                    *)
(* name: the ROI manager's name; area, perim: what "Measure" reports on    *)
(* the mask; areaFraction: %Area of the nuclei mask inside the ROI; crop:  *)
(* the mask cropped to the ROI.                                            *)
(***************************************************************************)
Roi(n, a, p, f, c) ==
    [name |-> n, area |-> a, perim |-> p, areaFraction |-> f, crop |-> c]

CellA == Roi("0005-0005", 30, 25, 50, [max |-> 255, trees |-> <<TreeFork, TreeBush>>])
CellNoNucleus == Roi("0009-0009", 20, 18, 50, EmptyCrop)
CellSquare == Roi("0012-0003", 50, 20, 100, [max |-> 255, trees |-> <<TreeLong>>])
PointRoi == Roi("0001-0001", 0, 0, 0, EmptyCrop)

RoiPool == {CellA, CellNoNucleus, CellSquare, PointRoi}

\* "Analyze Particles..." size=MICROGLIA_MIN_SIZE-MICROGLIA_MAX_SIZE ... add
ParticlePool ==
    {r \in RoiPool : MICROGLIA_MIN_SIZE <= r.area /\ r.area <= MICROGLIA_MAX_SIZE}

(***************************************************************************)
(* ROI manager commands                                                    *)
(***************************************************************************)
RECURSIVE Pick(_, _, _)
\* the items of rs at the indexes of keep, from index i on, in list order
Pick(rs, keep, i) ==
    IF i > Len(rs) THEN << >>
    ELSE (IF i \in keep THEN <<rs[i]>> ELSE << >>) \o Pick(rs, keep, i + 1)

\* rm.setSelectedIndexes(selected); rm.runCommand("Delete")
RmDelete(rs, selected) ==
    IF selected = {} THEN << >>
    ELSE Pick(rs, (1..Len(rs)) \ selected, 1)

\* the label "Measure" gives a row: image title, then ROI name
RowLabel(roi) == [title |-> MASK_TITLE, roi |-> roi.name]

MeasuredRow(roi) ==
    [Label |-> RowLabel(roi), Area |-> roi.area, Perim |-> roi.perim]

\* IJ.run("Clear Results"); rm.runCommand("Measure")
RmMeasure(rs, selected) ==
    LET indexes == IF selected = {} THEN 1..Len(rs) ELSE selected
        picked == Pick(rs, indexes, 1)
    IN  [i \in 1..Len(picked) |-> MeasuredRow(picked[i])]

\* results.setValue(column, row, value)
SetValue(table, column, row, value) ==
    [table EXCEPT ![row] = (column :> value) @@ table[row]]

(***************************************************************************)
(* Nucleus filter (main, "Remove microglia ROIs that do not have a         *)
(* significant nucleus")                                                   *)
(***************************************************************************)
\* sum_nuclei_gray < NUCLEUS_INTERSECTION_WITH_CELL, with
\* sum_nuclei_gray = stats.area * stats.areaFraction / 100
BelowNucleusThreshold(roi) ==
    roi.area * roi.areaFraction < NUCLEUS_INTERSECTION_WITH_CELL * 100

to_be_deleted(rs) == {i \in 1..Len(rs) : BelowNucleusThreshold(rs[i])}

FilteredRois(rs) ==
    IF Len(rs) > 0 THEN RmDelete(rs, to_be_deleted(rs)) ELSE rs

(***************************************************************************)
(* Measurement loop                                                        *)
(***************************************************************************)
RECURSIVE RiSearch(_, _, _)
\* the largest k with k / RI_ONE <= perimeter / (2 * sqrt(PI * area)), area > 0
RiSearch(perimeter, area, k) ==
    IF 4 * (k + 1) * (k + 1) * PI_NUM * area
          <= RI_ONE * RI_ONE * perimeter * perimeter * PI_DEN
    THEN RiSearch(perimeter, area, k + 1)
    ELSE k

\* ri = perimeter / area / (2 * sqrt((PI / area))), in units of 1 / RI_ONE
Ri(perimeter, area) == RiSearch(perimeter, area, 0)

RiAssertOff(ri) == TRUE

\* assert ri >= 1, ri
RiAssert(ri) == ri >= RI_ONE

SizeAssertOff(size, count) == TRUE

\* assert results.size() == rm.getCount()
SizeAssert(size, count) == size = count

RECURSIVE MeasureLoop(_, _, _)
\* for row in range(results.size()): ...   (row is 1-based here)
MeasureLoop(table, rs, row) ==
    IF row > Len(table) THEN [status |-> "ok", table |-> table]
    ELSE
      LET perimeter == table[row].Perim
          area == table[row].Area
      IN
      IF area = 0 THEN [status |-> "ZeroDivisionError", table |-> table]
      ELSE
        LET ri == Ri(perimeter, area) IN
        IF ~RiAssert(ri) THEN [status |-> "ri_assert", table |-> table]
        ELSE
          LET withRi == SetValue(table, "RI", row, ri) IN
          IF ~SizeAssert(Len(withRi), Len(rs))
          THEN [status |-> "size_assert", table |-> withRi]
          ELSE
            LET roi == rs[row]
                cl == get_cable_length(roi.crop)
            IN  MeasureLoop(SetValue(withRi, "Cable_Length", row, cl), rs, row + 1)

ShouldMeasureAlways(count) == TRUE

\* if rm.getCount() > 0:   (the "Measure microglia" block)
ShouldMeasure(count) == count > 0

(***************************************************************************)
(* Disk                                                                    *)
(***************************************************************************)
NoFile == [isfile |-> FALSE, rows |-> << >>]

\* a per-image table left in analysis_v9 by an earlier run on the folder
StaleRow ==
    [Label |-> [title |-> MASK_TITLE, roi |-> "0007-0007"],
     Area |-> 40, Perim |-> 30, RI |-> 13, Cable_Length |-> 5]

StaleFile == [isfile |-> TRUE, rows |-> <<StaleRow>>]

CsvFile(rows) == [isfile |-> TRUE, rows |-> rows]

RECURSIVE FolderRows(_, _, _)
\* the second loop of main(): the rows of every <name>.csv that is a file,
\* in file_list order, copied row by row
FolderRows(files, disk, i) ==
    IF i > Len(files) THEN << >>
    ELSE
      LET f == files[i] IN
      (IF Qualifies(f) /\ disk[f.name].isfile THEN disk[f.name].rows ELSE << >>)
        \o FolderRows(files, disk, i + 1)

(***************************************************************************)
(* Initial state: main() has listed the folder.  analysis_v9 may be left   *)
(* over from an earlier run (main only creates it when it is missing), so  *)
(* a qualifying file may already have a <name>.csv in it.                  *)
(***************************************************************************)
FileNames == {f.name : f \in FilePool}

Init ==
    /\ file_list \in FileLists
    /\ modelExists \in BOOLEAN
    /\ csv \in [FileNames -> {NoFile, StaleFile}]
    /\ \A f \in FilePool :
          csv[f.name].isfile => (Qualifies(f) /\ f \in Range(file_list))
    /\ idx = 1
    /\ pc = "loop"
    /\ failure = "none"
    /\ message = "none"
    /\ opened = {}
    /\ classified = {}
    /\ rois = << >>
    /\ results = << >>
    /\ summaryRows = 0
    /\ csvWritten = {}
    /\ xlsx = {}
    /\ tif = {}
    /\ png = {}
    /\ crop = EmptyCrop
    /\ cable_length = 0

\* the file the first loop is at
file == file_list[idx]

(***************************************************************************)
(* First loop of main(), one image                                         *)
(***************************************************************************)
\* if not (file_name.endswith(".nd2") or file_name.endswith(".tif")): continue
SkipFile ==
    /\ pc = "loop"
    /\ idx <= Len(file_list)
    /\ ~Qualifies(file)
    /\ idx' = idx + 1
    /\ UNCHANGED <<file_list, modelExists, pc, failure, message, opened,
                   classified, rois, results, summaryRows, csv, csvWritten,
                   xlsx, tif, png, crop, cable_length>>

ImportOutcomeSkip(imageCount, i) ==
    IF imageCount = 0
    THEN [pc |-> "loop", idx |-> i + 1, failure |-> "open",
          message |-> "Could not open image"]
    ELSE [pc |-> "opened", idx |-> i, failure |-> "none", message |-> "none"]

\* if WindowManager.getImageCount() == 0: print; IJ.showMessage(...); exit()
ImportOutcome(imageCount, i) ==
    IF imageCount = 0
    THEN [pc |-> "aborted", idx |-> i, failure |-> "open",
          message |-> "Could not open image"]
    ELSE [pc |-> "opened", idx |-> i, failure |-> "none", message |-> "none"]

\* rm.reset(); Bio-Formats Importer; Z Project; nuclei mask; antibody_raw
OpenImage ==
    /\ pc = "loop"
    /\ idx <= Len(file_list)
    /\ Qualifies(file)
    /\ \E imageCount \in 0..1 :
          LET out == ImportOutcome(imageCount, idx) IN
          /\ pc' = out.pc
          /\ idx' = out.idx
          /\ failure' = (IF out.failure = "none" THEN failure ELSE out.failure)
          /\ message' = (IF out.message = "none" THEN message ELSE out.message)
          /\ opened' = (IF imageCount = 0 THEN opened ELSE opened \cup {file.name})
    /\ rois' = << >>
    /\ UNCHANGED <<file_list, modelExists, classified, results, summaryRows,
                   csv, csvWritten, xlsx, tif, png, crop, cable_length>>

ModelAssertOff(exists) == TRUE

\* assert os.path.exists(membrane_model_file), membrane_model_file
ModelAssert(exists) == exists

\* the assert, "Run Pixel Classification Prediction", 3D objects, "Analyze Particles..."
ClassifyAndSegment ==
    /\ pc = "opened"
    /\ IF ~ModelAssert(modelExists)
       THEN /\ pc' = "aborted"
            /\ failure' = "model_assert"
            /\ UNCHANGED <<classified, rois>>
       ELSE /\ pc' = "segmented"
            /\ classified' = classified \cup {file.name}
            /\ rois' \in SeqsUpTo(ParticlePool, MaxRois)
            /\ UNCHANGED failure
    /\ UNCHANGED <<file_list, modelExists, idx, message, opened, results,
                   summaryRows, csv, csvWritten, xlsx, tif, png, crop, cable_length>>

\* the to_be_deleted loop, rm.setSelectedIndexes(to_be_deleted), "Delete"
NucleusFilter ==
    /\ pc = "segmented"
    /\ pc' = "filtered"
    /\ rois' = FilteredRois(rois)
    /\ UNCHANGED <<file_list, modelExists, idx, failure, message, opened,
                   classified, results, summaryRows, csv, csvWritten, xlsx,
                   tif, png, crop, cable_length>>

\* WaitForUserDialog: the user edits the ROI manager's list and clicks OK
Checkpoint ==
    /\ pc = "filtered"
    /\ pc' = "checkpoint"
    /\ rois' \in SeqsUpTo(RoiPool, MaxRois)
    /\ UNCHANGED <<file_list, modelExists, idx, failure, message, opened,
                   classified, results, summaryRows, csv, csvWritten, xlsx,
                   tif, png, crop, cable_length>>

\* "Measure Microglia ROIs": the mask from the ROIs, "Measure", the RI and
\* cable-length loop, then the CSV, "Summarize" and the Excel file
MeasureRois ==
    /\ pc = "checkpoint"
    /\ IF ~ShouldMeasure(Len(rois))
       THEN /\ pc' = "measured"
            /\ UNCHANGED <<failure, results, summaryRows, csv, csvWritten, xlsx>>
       ELSE \E selected \in SUBSET (1..Len(rois)) :
              LET out == MeasureLoop(RmMeasure(rois, selected), rois, 1) IN
              IF out.status = "ok"
              THEN /\ pc' = "measured"
                   /\ results' = out.table
                   /\ csv' = [csv EXCEPT ![file.name] = CsvFile(out.table)]
                   /\ csvWritten' = csvWritten \cup {file.name}
                   /\ summaryRows' = 1
                   /\ xlsx' = xlsx \cup {file.name}
                   /\ UNCHANGED failure
              ELSE /\ pc' = "aborted"
                   /\ failure' = out.status
                   /\ results' = out.table
                   /\ summaryRows' = 0
                   /\ UNCHANGED <<csv, csvWritten, xlsx>>
    /\ UNCHANGED <<file_list, modelExists, idx, message, opened, classified,
                   rois, tif, png, crop, cable_length>>

\* "Save image with segmentation": <name>.tif, <name>_masks.png, "Close All"
SaveImages ==
    /\ pc = "measured"
    /\ tif' = tif \cup {file.name}
    /\ png' = png \cup {file.name}
    /\ idx' = idx + 1
    /\ pc' = "loop"
    /\ UNCHANGED <<file_list, modelExists, failure, message, opened, classified,
                   rois, results, summaryRows, csv, csvWritten, xlsx, crop,
                   cable_length>>

(***************************************************************************)
(* "Create folder Summary": second loop of main(), "Summarize", "Finished" *)
(***************************************************************************)
FolderSummary ==
    /\ pc = "loop"
    /\ idx > Len(file_list)
    /\ results' = FolderRows(file_list, csv, 1)
    /\ summaryRows' = 1
    /\ message' = "Finshed processing folder."
    /\ pc' = "done"
    /\ UNCHANGED <<file_list, modelExists, idx, failure, opened, classified,
                   rois, csv, csvWritten, xlsx, tif, png, crop, cable_length>>

Next ==
    \/ SkipFile
    \/ OpenImage
    \/ ClassifyAndSegment
    \/ NucleusFilter
    \/ Checkpoint
    \/ MeasureRois
    \/ SaveImages
    \/ FolderSummary

Spec == Init /\ [][Next]_vars

(***************************************************************************)
(* get_cable_length on its own: the crop is the input, cable_length the    *)
(* returned value.                                                         *)
(***************************************************************************)
InitCable ==
    /\ crop \in Crops
    /\ cable_length = 0
    /\ pc = "cable_call"
    /\ file_list = << >>
    /\ modelExists = TRUE
    /\ csv = [n \in FileNames |-> NoFile]
    /\ idx = 1
    /\ failure = "none"
    /\ message = "none"
    /\ opened = {}
    /\ classified = {}
    /\ rois = << >>
    /\ results = << >>
    /\ summaryRows = 0
    /\ csvWritten = {}
    /\ xlsx = {}
    /\ tif = {}
    /\ png = {}

CallCableLength ==
    /\ pc = "cable_call"
    /\ cable_length' = get_cable_length(crop)
    /\ pc' = "cable_return"
    /\ UNCHANGED <<file_list, modelExists, idx, failure, message, opened,
                   classified, rois, results, summaryRows, csv, csvWritten,
                   xlsx, tif, png, crop>>

NextCable == CallCableLength

SpecCable == InitCable /\ [][NextCable]_vars

(***************************************************************************)
(* Properties                                                              *)
(***************************************************************************)

\* C1: every RI value written to a measurement table is >= 1: the rows of
\* every CSV this run wrote and every RI cell of the Results table hold
\* RI >= 1; when a computed RI is below 1 the run is stopped at that row
\* (the rows before it have their RI, that row has none and its RI is below
\* 1) and neither the CSV nor the XLSX of that image is written.
C1_RiAtLeastOne ==
    /\ \A n \in csvWritten :
          \A i \in 1..Len(csv[n].rows) :
             /\ "RI" \in DOMAIN csv[n].rows[i]
             /\ csv[n].rows[i].RI >= RI_ONE
    /\ \A i \in 1..Len(results) :
          "RI" \in DOMAIN results[i] => results[i].RI >= RI_ONE
    /\ failure = "ri_assert" =>
          /\ pc = "aborted"
          /\ file.name \notin csvWritten
          /\ file.name \notin xlsx
          /\ \E i \in 1..Len(results) :
                /\ "RI" \notin DOMAIN results[i]
                /\ results[i].Area > 0
                /\ Ri(results[i].Perim, results[i].Area) < RI_ONE
                /\ \A j \in 1..(i - 1) : "RI" \in DOMAIN results[j]

\* C1 witness: the run stopped on an RI below 1 after an earlier image's
\* table had been written.
C1_Witness ==
    /\ failure = "ri_assert"
    /\ csvWritten # {}

\* C2: after the measurement stage of an image with ROIs, the table written
\* for it has one row per ROI of the ROI manager, row i being ROI i; when
\* "Measure" returned a different number of rows than there are ROIs, the
\* run is stopped and no table is written for the image.
C2_RowsMatchRois ==
    /\ (pc = "measured" /\ Len(rois) > 0) =>
          /\ file.name \in csvWritten
          /\ Len(csv[file.name].rows) = Len(rois)
          /\ Len(results) = Len(rois)
          /\ \A i \in 1..Len(rois) :
                csv[file.name].rows[i].Label.roi = rois[i].name
    /\ failure = "size_assert" =>
          /\ pc = "aborted"
          /\ Len(results) # Len(rois)
          /\ file.name \notin csvWritten
          /\ file.name \notin xlsx

\* C2 witness: an image was measured with two or more ROIs in the manager
\* (the checkpoint's list), and its table written.
C2_Witness ==
    /\ pc = "measured"
    /\ Len(rois) >= 2
    /\ file.name \in csvWritten

\* C3: once a qualifying file failed to open, the run is stopped with the
\* "Could not open image" notice: the failing file and every later file of
\* the list have no output and were never opened or classified, and the
\* folder summary is not built.
C3_OpenFailureAborts ==
    failure = "open" =>
       /\ pc = "aborted"
       /\ message = "Could not open image"
       /\ \A j \in idx..Len(file_list) :
             file_list[j].name \notin
                (opened \cup classified \cup csvWritten \cup xlsx \cup tif \cup png)

\* C3 witness: the open failure happened with a qualifying file still to
\* come after the failing one.
C3_Witness ==
    /\ failure = "open"
    /\ idx < Len(file_list)
    /\ Qualifies(file_list[idx + 1])

\* C4: with an empty ROI manager after the checkpoint, the measurement
\* stage goes on without a failure and writes no CSV and no XLSX, and the
\* following step saves <name>.tif and <name>_masks.png and moves to the
\* next file.
C4_ZeroRoisStillExported ==
    [][ /\ (pc = "checkpoint" /\ rois = << >>) =>
              /\ pc' = "measured"
              /\ failure' = "none"
              /\ csv' = csv
              /\ csvWritten' = csvWritten
              /\ xlsx' = xlsx
        /\ (pc = "measured" /\ rois = << >>) =>
              /\ file.name \notin csvWritten
              /\ tif' = tif \cup {file.name}
              /\ png' = png \cup {file.name}
              /\ failure' = "none"
              /\ pc' = "loop"
              /\ idx' = idx + 1 ]_vars

\* C4 witness: the loop moved past an image whose overview and masks were
\* saved and for which no table was written.
C4_Witness ==
    /\ pc = "loop"
    /\ idx > 1
    /\ file_list[idx - 1].name \in (tif \cap png)
    /\ file_list[idx - 1].name \notin (csvWritten \cup xlsx)

\* C5 as stated: without the model file the run never completes, and it
\* fails before any image has been loaded.
C5_Original ==
    ~modelExists => (pc # "done" /\ opened = {})

\* C5 amended: without the model file no image is ever classified and no
\* output is written; the assertion fails at the first qualifying file that
\* opened, after it was loaded; only a folder without a qualifying file
\* runs to the end.
C5_ModelAssertPerImage ==
    ~modelExists =>
       /\ classified = {}
       /\ csvWritten \cup xlsx \cup tif \cup png = {}
       /\ Cardinality(opened) <= 1
       /\ pc \notin {"segmented", "filtered", "checkpoint", "measured"}
       /\ failure = "model_assert" =>
             /\ pc = "aborted"
             /\ opened = {file.name}
             /\ \A j \in 1..(idx - 1) : ~Qualifies(file_list[j])
       /\ pc = "done" => \A j \in 1..Len(file_list) : ~Qualifies(file_list[j])

\* C5 witness: the assertion failed on a loaded image that was not the first
\* entry of the folder listing.
C5_Witness ==
    /\ failure = "model_assert"
    /\ idx > 1
    /\ file.name \in opened

RECURSIVE WrittenRows(_, _)
\* the rows of the tables this run wrote, in file_list order
WrittenRows(files, i) ==
    IF i > Len(files) THEN << >>
    ELSE (IF files[i].name \in csvWritten THEN csv[files[i].name].rows ELSE << >>)
            \o WrittenRows(files, i + 1)

\* C6: after a run that completes, the folder summary holds exactly the
\* measurement rows of the tables the images of this run produced, in file
\* order and row order, and one aggregate block; an image that produced no
\* table contributes no row.
C6_Claim ==
    pc = "done" =>
       /\ results = WrittenRows(file_list, 1)
       /\ summaryRows = 1

RECURSIVE FolderSources(_, _, _)
\* for each row of the folder summary, the name of the file it was read for
FolderSources(files, disk, i) ==
    IF i > Len(files) THEN << >>
    ELSE
      LET f == files[i] IN
      (IF Qualifies(f) /\ disk[f.name].isfile
       THEN [k \in 1..Len(disk[f.name].rows) |-> f.name]
       ELSE << >>)
        \o FolderSources(files, disk, i + 1)

\* C7: every row of the folder summary has a label that starts with the
\* name of the file it came from, and rows of two different files never
\* have the same label.
C7_Claim ==
    pc = "done" =>
       LET src == FolderSources(file_list, csv, 1) IN
       /\ Len(src) = Len(results)
       /\ \A i \in 1..Len(results) : results[i].Label.title = src[i]
       /\ \A i, j \in 1..Len(results) :
             src[i] # src[j] => results[i].Label # results[j].Label

\* C8: a ROI of area 0 never makes the measurement stage stop on a division
\* fault.
C8_Claim == failure # "ZeroDivisionError"

\* C9: the nucleus filter leaves exactly the candidates whose overlap
\* area * areaFraction / 100 is >= NUCLEUS_INTERSECTION_WITH_CELL, in their
\* order.
C9_Claim ==
    [][ (pc = "segmented" /\ pc' = "filtered") =>
           LET Retained(r) ==
                 r.area * r.areaFraction >= NUCLEUS_INTERSECTION_WITH_CELL * 100
           IN  rois' = SelectSeq(rois, Retained) ]_vars

\* the first tree of trees that has the most graph nodes
FirstWithMostNodes(trees) ==
    trees[CHOOSE i \in 1..Len(trees) :
            /\ \A j \in 1..Len(trees) : SumNodes(trees[j]) <= SumNodes(trees[i])
            /\ \A j \in 1..(i - 1) : SumNodes(trees[j]) < SumNodes(trees[i])]

====
